---- MODULE Spec2Model ----
(***************************************************************************)
(* Model of the WebSocket chat server of src/server.js.                    *)
(*                                                                         *)
(* The server is single-threaded: each 'connection', 'message' and 'close' *)
(* callback runs to completion, so each is one action.  The state is the   *)
(* four in-memory stores, the per-socket fields (readyState, isLoggedIn,   *)
(* user) and, for observation, the frames the last callback wrote to each  *)
(* socket (sent).                                                          *)
(***************************************************************************)
EXTENDS Integers, Sequences, FiniteSets, TLC

\* ---------------------------------------------------------------- bounds
\* Number of uuidv4() values the run may consume (identities, chat
\* messages and feature requests each take one).
MaxIds == 3

\* Slots for the sockets that are in wss.clients at one time.  A socket
\* takes the lowest free slot when the server accepts it and frees it when
\* its 'close' callback has run, so a run may see any number of sockets.
Conns == {1, 2}

\* Values a client may put in the payload of an event.
Names == {"ADMIN", "bob"}
Passwords == {"toor", "oops"}
Texts == {"hi"}

\* ------------------------------------------------------ program constants
ADMIN_PASSWORD == "toor"
ADMIN_NAME == "ADMIN"

\* The `null` default of broadcast's senderWs parameter.
NoConn == 0

\* ws.user before a join assigned it (undefined).
NoUser == [id |-> 0, name |-> "", isAdmin |-> FALSE]

\* Event types a client may send; clearChat and adminMessage have no case
\* in the switch and reach its default arm.
EventTypes == {"join", "chatMessage", "banUser", "unbanUser", "featureRequest",
               "deleteFeatureRequest", "clearChat", "adminMessage"}

VARIABLES
    connectedUsers,   \* sequence of identities
    bannedUsers,      \* sequence of identities
    messages,         \* sequence of chat messages
    featureRequests,  \* sequence of feature requests
    readyState,       \* per slot: "NONE" (no socket), "OPEN", "CLOSING"
    isLoggedIn,       \* per socket: ws.isLoggedIn
    user,             \* per socket: ws.user (NoUser while undefined)
    nextId,           \* next value uuidv4() returns
    crashed,          \* the process died of an uncaught exception
    sent              \* per socket: frames the last callback wrote to it, in order

vars == <<connectedUsers, bannedUsers, messages, featureRequests, readyState,
          isLoggedIn, user, nextId, crashed, sent>>

stores == <<connectedUsers, bannedUsers, messages, featureRequests>>

\* ---------------------------------------------------------------- helpers
RECURSIVE FilterSeq(_, _)
\* Array.prototype.filter with the predicate "u.id # id".
FilterSeq(s, id) ==
    IF s = <<>> THEN <<>>
    ELSE IF Head(s).id # id THEN <<Head(s)>> \o FilterSeq(Tail(s), id)
         ELSE FilterSeq(Tail(s), id)

NamesOf(list) == {list[i].name : i \in DOMAIN list}
IdsOf(list) == {list[i].id : i \in DOMAIN list}

\* userList.find(u => u.id === userId): the first match, NoUser for undefined.
findUserById(userList, userId) ==
    IF \E i \in DOMAIN userList : userList[i].id = userId
    THEN userList[CHOOSE i \in DOMAIN userList :
                     /\ userList[i].id = userId
                     /\ \A j \in DOMAIN userList : userList[j].id = userId => i <= j]
    ELSE NoUser

removeUserById(userList, userId) == FilterSeq(userList, userId)

NoneSent == [c \in Conns |-> <<>>]

\* clientWs.send happens only when the socket is OPEN.
sendToClient(out, rs, clientWs, data) ==
    IF clientWs \in Conns /\ rs[clientWs] = "OPEN"
    THEN [out EXCEPT ![clientWs] = Append(@, data)]
    ELSE out

\* broadcast with the toAdminsOnly filter left out.
broadcast_ToEveryone(out, rs, usr, data, senderWs, toAdminsOnly) ==
    [c \in Conns |->
        IF rs[c] = "OPEN" /\ c # senderWs THEN Append(out[c], data) ELSE out[c]]

\* wss.clients.forEach: every OPEN socket, filtered by role or by sender.
broadcast(out, rs, usr, data, senderWs, toAdminsOnly) ==
    [c \in Conns |->
        IF rs[c] = "OPEN"
        THEN IF toAdminsOnly
             THEN IF usr[c] # NoUser /\ usr[c].isAdmin
                  THEN Append(out[c], data) ELSE out[c]
             ELSE IF c # senderWs THEN Append(out[c], data) ELSE out[c]
        ELSE out[c]]

\* ws.close(): an OPEN socket starts its closing handshake; otherwise no effect.
\* A CLOSING socket stays in wss.clients, is skipped by every send, and its
\* 'message' callback still runs for frames that arrive before 'close'.
wsClose(rs, c) ==
    IF rs[c] = "OPEN" THEN [rs EXCEPT ![c] = "CLOSING"] ELSE rs

\* Sockets in wss.clients.
Clients == {c \in Conns : readyState[c] \in {"OPEN", "CLOSING"}}

UserListsMsg(cu, bu) ==
    [type |-> "updateUserLists", connectedUsers |-> cu, bannedUsers |-> bu]

\* ------------------------------------------------------------------- Init
Init ==
    /\ connectedUsers = <<>>
    /\ bannedUsers = <<>>
    /\ messages = <<>>
    /\ featureRequests = <<>>
    /\ readyState = [c \in Conns |-> "NONE"]
    /\ isLoggedIn = [c \in Conns |-> FALSE]
    /\ user = [c \in Conns |-> NoUser]
    /\ nextId = 1
    /\ crashed = FALSE
    /\ sent = NoneSent

\* -------------------------------------------------------------- callbacks
\* wss.on('connection')
Connection(c) ==
    /\ ~crashed
    /\ readyState[c] = "NONE"
    /\ \A k \in Conns : k < c => readyState[k] # "NONE"
    /\ readyState' = [readyState EXCEPT ![c] = "OPEN"]
    /\ isLoggedIn' = [isLoggedIn EXCEPT ![c] = FALSE]
    /\ user' = [user EXCEPT ![c] = NoUser]
    /\ sent' = NoneSent
    /\ UNCHANGED <<stores, nextId, crashed>>

\* A 'message' callback may run for a socket that is in wss.clients.
CanReceive(c) == ~crashed /\ readyState[c] \in {"OPEN", "CLOSING"}

\* The login gate closing the socket it turns away.
NotJoined_Closes(c, type) ==
    /\ CanReceive(c)
    /\ type \in EventTypes \ {"join"}
    /\ ~isLoggedIn[c]
    /\ sent' = sendToClient(NoneSent, readyState, c,
                 [type |-> "alert", message |-> "You must join the chat first."])
    /\ readyState' = wsClose(readyState, c)
    /\ UNCHANGED <<stores, isLoggedIn, user, nextId, crashed>>

\* The login gate: any event but join on a socket that has not logged in.
NotJoined(c, type) ==
    /\ CanReceive(c)
    /\ type \in EventTypes \ {"join"}
    /\ ~isLoggedIn[c]
    /\ sent' = sendToClient(NoneSent, readyState, c,
                 [type |-> "alert", message |-> "You must join the chat first."])
    /\ UNCHANGED <<stores, readyState, isLoggedIn, user, nextId, crashed>>

IsBanned(userName) == \E i \in DOMAIN bannedUsers : bannedUsers[i].name = userName

\* The ban check telling the caller without closing its socket.
JoinBanned_NotifiesOnly(c, userName, password) ==
    /\ CanReceive(c)
    /\ IsBanned(userName)
    /\ sent' = sendToClient(NoneSent, readyState, c,
                 [type |-> "banned", message |-> "You are banned from this chat."])
    /\ UNCHANGED <<stores, readyState, isLoggedIn, user, nextId, crashed>>

\* case 'join', the name is in the ban list
JoinBanned(c, userName, password) ==
    /\ CanReceive(c)
    /\ IsBanned(userName)
    /\ sent' = sendToClient(NoneSent, readyState, c,
                 [type |-> "banned", message |-> "You are banned from this chat."])
    /\ readyState' = wsClose(readyState, c)
    /\ UNCHANGED <<stores, isLoggedIn, user, nextId, crashed>>

\* The admin login without the password comparison: the name alone grants
\* the role.
JoinBadPassword_GrantsAdmin(c, userName, password) ==
    /\ CanReceive(c)
    /\ nextId <= MaxIds
    /\ ~IsBanned(userName)
    /\ userName = ADMIN_NAME /\ password # ADMIN_PASSWORD
    /\ LET u == [id |-> nextId, name |-> ADMIN_NAME, isAdmin |-> TRUE]
       IN /\ user' = [user EXCEPT ![c] = u]
          /\ isLoggedIn' = [isLoggedIn EXCEPT ![c] = TRUE]
          /\ connectedUsers' = Append(connectedUsers, u)
          /\ sent' = sendToClient(NoneSent, readyState, c, [type |-> "joinSuccess", user |-> u])
    /\ nextId' = nextId + 1
    /\ UNCHANGED <<bannedUsers, messages, featureRequests, readyState, crashed>>

\* JoinBadPassword without the ws.close() of line 117.
JoinBadPassword_StaysOpen(c, userName, password) ==
    /\ CanReceive(c)
    /\ ~IsBanned(userName)
    /\ userName = ADMIN_NAME /\ password # ADMIN_PASSWORD
    /\ sent' = sendToClient(NoneSent, readyState, c,
                 [type |-> "alert", message |-> "Incorrect admin password."])
    /\ UNCHANGED <<stores, readyState, isLoggedIn, user, nextId, crashed>>

\* case 'join', the admin name with another password than ADMIN_PASSWORD
JoinBadPassword(c, userName, password) ==
    /\ CanReceive(c)
    /\ ~IsBanned(userName)
    /\ userName = ADMIN_NAME /\ password # ADMIN_PASSWORD
    /\ sent' = sendToClient(NoneSent, readyState, c,
                 [type |-> "alert", message |-> "Incorrect admin password."])
    /\ readyState' = wsClose(readyState, c)
    /\ UNCHANGED <<stores, isLoggedIn, user, nextId, crashed>>

\* The identity a join that passed the checks assigns to ws.user.
NewUser(userId, userName, password) ==
    IF userName = ADMIN_NAME /\ password = ADMIN_PASSWORD
    THEN [id |-> userId, name |-> ADMIN_NAME, isAdmin |-> TRUE]
    ELSE [id |-> userId, name |-> userName, isAdmin |-> FALSE]

\* JoinOk broadcasting the connected list as it was before the push.
JoinOk_BroadcastsStaleList(c, userName, password) ==
    /\ CanReceive(c)
    /\ nextId <= MaxIds
    /\ ~IsBanned(userName)
    /\ ~(userName = ADMIN_NAME /\ password # ADMIN_PASSWORD)
    /\ LET u   == NewUser(nextId, userName, password)
           usr == [user EXCEPT ![c] = u]
           cu  == Append(connectedUsers, u)
           o1  == sendToClient(NoneSent, readyState, c, [type |-> "joinSuccess", user |-> u])
           o2  == sendToClient(o1, readyState, c, [type |-> "chatHistory", messages |-> messages])
           o3  == IF u.isAdmin
                  THEN sendToClient(o2, readyState, c,
                         [type |-> "updateFeatureRequests", requests |-> featureRequests])
                  ELSE o2
       IN /\ user' = usr
          /\ isLoggedIn' = [isLoggedIn EXCEPT ![c] = TRUE]
          /\ connectedUsers' = cu
          /\ sent' = broadcast(o3, readyState, usr,
                       UserListsMsg(connectedUsers, bannedUsers), NoConn, FALSE)
    /\ nextId' = nextId + 1
    /\ UNCHANGED <<bannedUsers, messages, featureRequests, readyState, crashed>>

\* case 'join', registration
JoinOk(c, userName, password) ==
    /\ CanReceive(c)
    /\ nextId <= MaxIds
    /\ ~IsBanned(userName)
    /\ ~(userName = ADMIN_NAME /\ password # ADMIN_PASSWORD)
    /\ LET u   == NewUser(nextId, userName, password)
           usr == [user EXCEPT ![c] = u]
           cu  == Append(connectedUsers, u)
           o1  == sendToClient(NoneSent, readyState, c, [type |-> "joinSuccess", user |-> u])
           o2  == sendToClient(o1, readyState, c, [type |-> "chatHistory", messages |-> messages])
           o3  == IF u.isAdmin
                  THEN sendToClient(o2, readyState, c,
                         [type |-> "updateFeatureRequests", requests |-> featureRequests])
                  ELSE o2
       IN /\ user' = usr
          /\ isLoggedIn' = [isLoggedIn EXCEPT ![c] = TRUE]
          /\ connectedUsers' = cu
          /\ sent' = broadcast(o3, readyState, usr, UserListsMsg(cu, bannedUsers), NoConn, FALSE)
    /\ nextId' = nextId + 1
    /\ UNCHANGED <<bannedUsers, messages, featureRequests, readyState, crashed>>

Join(c, userName, password) ==
    \/ JoinBanned(c, userName, password)
    \/ JoinBadPassword(c, userName, password)
    \/ JoinOk(c, userName, password)

\* Events other than join run their case only on a socket that logged in.
LoggedIn(c) == CanReceive(c) /\ isLoggedIn[c]

NotAuthorized == [type |-> "alert", message |-> "You are not authorized to perform this action."]

\* chatMessage broadcast to all but the sender.
ChatMessage_ExcludesSender(c, text) ==
    /\ LoggedIn(c)
    /\ nextId <= MaxIds
    /\ LET newMessage == [id |-> nextId, userId |-> user[c].id,
                          userName |-> user[c].name, text |-> text]
       IN /\ messages' = Append(messages, newMessage)
          /\ sent' = broadcast(NoneSent, readyState, user,
                       [type |-> "newMessage", message |-> newMessage], c, FALSE)
    /\ nextId' = nextId + 1
    /\ UNCHANGED <<connectedUsers, bannedUsers, featureRequests, readyState,
                   isLoggedIn, user, crashed>>

\* ChatMessage putting the new entry in front of the log.
ChatMessage_Prepends(c, text) ==
    /\ LoggedIn(c)
    /\ nextId <= MaxIds
    /\ LET newMessage == [id |-> nextId, userId |-> user[c].id,
                          userName |-> user[c].name, text |-> text]
       IN /\ messages' = <<newMessage>> \o messages
          /\ sent' = broadcast(NoneSent, readyState, user,
                       [type |-> "newMessage", message |-> newMessage], NoConn, FALSE)
    /\ nextId' = nextId + 1
    /\ UNCHANGED <<connectedUsers, bannedUsers, featureRequests, readyState,
                   isLoggedIn, user, crashed>>

\* case 'chatMessage' (the timestamp field is not modelled)
ChatMessage(c, text) ==
    /\ LoggedIn(c)
    /\ nextId <= MaxIds
    /\ LET newMessage == [id |-> nextId, userId |-> user[c].id,
                          userName |-> user[c].name, text |-> text]
       IN /\ messages' = Append(messages, newMessage)
          /\ sent' = broadcast(NoneSent, readyState, user,
                       [type |-> "newMessage", message |-> newMessage], NoConn, FALSE)
    /\ nextId' = nextId + 1
    /\ UNCHANGED <<connectedUsers, bannedUsers, featureRequests, readyState,
                   isLoggedIn, user, crashed>>

\* Array.from(wss.clients).find(client => client.user && client.user.id === userId);
\* a uuid is assigned to one socket only, so at most one socket matches.
ClientOfUser(userId) ==
    IF \E k \in Clients : user[k] # NoUser /\ user[k].id = userId
    THEN CHOOSE k \in Clients : user[k] # NoUser /\ user[k].id = userId
    ELSE NoConn

\* case 'banUser'
BanUser(c, userId) ==
    /\ LoggedIn(c)
    /\ IF user[c].isAdmin
       THEN LET userToBan == findUserById(connectedUsers, userId)
            IN IF userToBan # NoUser
               THEN LET bu == Append(bannedUsers, userToBan)
                        cu == removeUserById(connectedUsers, userId)
                        bannedClientWs == ClientOfUser(userId)
                        o1 == sendToClient(NoneSent, readyState, bannedClientWs,
                                           [type |-> "banned"])
                        rs == IF bannedClientWs # NoConn
                              THEN wsClose(readyState, bannedClientWs)
                              ELSE readyState
                    IN /\ bannedUsers' = bu
                       /\ connectedUsers' = cu
                       /\ readyState' = rs
                       /\ sent' = broadcast(o1, rs, user, UserListsMsg(cu, bu), NoConn, FALSE)
               ELSE /\ sent' = NoneSent
                    /\ UNCHANGED <<connectedUsers, bannedUsers, readyState>>
       ELSE /\ sent' = sendToClient(NoneSent, readyState, c, NotAuthorized)
            /\ UNCHANGED <<connectedUsers, bannedUsers, readyState>>
    /\ UNCHANGED <<messages, featureRequests, isLoggedIn, user, nextId, crashed>>

\* case 'unbanUser'
UnbanUser(c, userId) ==
    /\ LoggedIn(c)
    /\ IF user[c].isAdmin
       THEN IF findUserById(bannedUsers, userId) # NoUser
            THEN LET bu == removeUserById(bannedUsers, userId)
                 IN /\ bannedUsers' = bu
                    /\ sent' = broadcast(NoneSent, readyState, user,
                                 UserListsMsg(connectedUsers, bu), NoConn, FALSE)
            ELSE /\ sent' = NoneSent
                 /\ UNCHANGED bannedUsers
       ELSE /\ sent' = sendToClient(NoneSent, readyState, c, NotAuthorized)
            /\ UNCHANGED bannedUsers
    /\ UNCHANGED <<connectedUsers, messages, featureRequests, readyState,
                   isLoggedIn, user, nextId, crashed>>

FeatureRequestsMsg(requests) == [type |-> "updateFeatureRequests", requests |-> requests]

\* case 'featureRequest' (the timestamp field is not modelled)
FeatureRequest(c, text) ==
    /\ LoggedIn(c)
    /\ IF user[c].isAdmin
       THEN /\ sent' = sendToClient(NoneSent, readyState, c,
                         [type |-> "alert", message |-> "Admins cannot submit feature requests."])
            /\ UNCHANGED <<featureRequests, nextId>>
       ELSE /\ nextId <= MaxIds
            /\ LET newRequest == [id |-> nextId, userId |-> user[c].id,
                                  userName |-> user[c].name, text |-> text]
                   fr == Append(featureRequests, newRequest)
               IN /\ featureRequests' = fr
                  /\ sent' = broadcast(NoneSent, readyState, user,
                               FeatureRequestsMsg(fr), NoConn, TRUE)
            /\ nextId' = nextId + 1
    /\ UNCHANGED <<connectedUsers, bannedUsers, messages, readyState,
                   isLoggedIn, user, crashed>>

\* case 'deleteFeatureRequest'
DeleteFeatureRequest(c, requestId) ==
    /\ LoggedIn(c)
    /\ IF user[c].isAdmin
       THEN LET fr == FilterSeq(featureRequests, requestId)
            IN /\ featureRequests' = fr
               /\ sent' = broadcast(NoneSent, readyState, user,
                            FeatureRequestsMsg(fr), NoConn, TRUE)
       ELSE /\ sent' = sendToClient(NoneSent, readyState, c, NotAuthorized)
            /\ UNCHANGED featureRequests
    /\ UNCHANGED <<connectedUsers, bannedUsers, messages, readyState,
                   isLoggedIn, user, nextId, crashed>>

\* default: a type the switch has no case for is logged and ignored.
UnknownType(c, type) ==
    /\ LoggedIn(c)
    /\ type \in {"clearChat", "adminMessage"}
    /\ sent' = NoneSent
    /\ UNCHANGED <<stores, readyState, isLoggedIn, user, nextId, crashed>>

\* A frame that is not JSON: JSON.parse throws inside the 'message' callback
\* before anything is read or written, nothing catches it, and the process
\* exits.  No callback runs afterwards.
Malformed(c) ==
    /\ CanReceive(c)
    /\ crashed' = TRUE
    /\ sent' = NoneSent
    /\ UNCHANGED <<stores, readyState, isLoggedIn, user, nextId>>

\* Close without the removeUserById of line 245.
Close_KeepsIdentity(c) ==
    /\ CanReceive(c)
    /\ LET rs == [readyState EXCEPT ![c] = "NONE"]
       IN /\ readyState' = rs
          /\ sent' = IF user[c] # NoUser
                     THEN broadcast(NoneSent, rs, user,
                            UserListsMsg(connectedUsers, bannedUsers), NoConn, FALSE)
                     ELSE NoneSent
    /\ isLoggedIn' = [isLoggedIn EXCEPT ![c] = FALSE]
    /\ user' = [user EXCEPT ![c] = NoUser]
    /\ UNCHANGED <<stores, nextId, crashed>>

\* ws.on('close'): the socket is CLOSED and out of wss.clients when the
\* callback runs; afterwards nothing refers to it and its slot is free.
Close(c) ==
    /\ CanReceive(c)
    /\ LET rs == [readyState EXCEPT ![c] = "NONE"]
       IN /\ readyState' = rs
          /\ IF user[c] # NoUser
             THEN LET cu == removeUserById(connectedUsers, user[c].id)
                  IN /\ connectedUsers' = cu
                     /\ sent' = broadcast(NoneSent, rs, user,
                                  UserListsMsg(cu, bannedUsers), NoConn, FALSE)
             ELSE /\ sent' = NoneSent
                  /\ UNCHANGED connectedUsers
    /\ isLoggedIn' = [isLoggedIn EXCEPT ![c] = FALSE]
    /\ user' = [user EXCEPT ![c] = NoUser]
    /\ UNCHANGED <<bannedUsers, messages, featureRequests, nextId, crashed>>

\* Ids a client may name when it asks to remove an entry of a list: the id of
\* each entry, and one id no entry has (every such id takes the same path).
NoId == 0
IdInputs(list) == IdsOf(list) \cup {NoId}

\* The password sent with a join: the server reads it for the admin name only.
NoPassword == ""
PasswordInputs(userName) == IF userName = ADMIN_NAME THEN Passwords ELSE {NoPassword}

Next ==
    \/ \E c \in Conns : Connection(c)
    \/ \E c \in Conns, t \in EventTypes : NotJoined(c, t)
    \/ \E c \in Conns, n \in Names : \E p \in PasswordInputs(n) : JoinBanned(c, n, p)
    \/ \E c \in Conns, n \in Names : \E p \in PasswordInputs(n) : JoinBadPassword(c, n, p)
    \/ \E c \in Conns, n \in Names : \E p \in PasswordInputs(n) : JoinOk(c, n, p)
    \/ \E c \in Conns, t \in Texts : ChatMessage(c, t)
    \/ \E c \in Conns, i \in IdInputs(connectedUsers) : BanUser(c, i)
    \/ \E c \in Conns, i \in IdInputs(bannedUsers) : UnbanUser(c, i)
    \/ \E c \in Conns, t \in Texts : FeatureRequest(c, t)
    \/ \E c \in Conns, i \in IdInputs(featureRequests) : DeleteFeatureRequest(c, i)
    \/ \E c \in Conns, t \in EventTypes : UnknownType(c, t)
    \/ \E c \in Conns : Malformed(c)
    \/ \E c \in Conns : Close(c)

Spec == Init /\ [][Next]_vars

\* ------------------------------------------------------------ observation
\* The frames of one type among those a socket was sent.
Frames(out, type) == {i \in DOMAIN out : out[i].type = type}

BannedNotice == [type |-> "banned", message |-> "You are banned from this chat."]
JoinFirstAlert == [type |-> "alert", message |-> "You must join the chat first."]
BadPasswordAlert == [type |-> "alert", message |-> "Incorrect admin password."]

Unbound(c) == ~isLoggedIn[c] /\ user[c] = NoUser

\* The connection is in one of the states Unbound or Active: its socket is
\* open, the server has not closed it.
Live(c) == readyState[c] = "OPEN"
StoresUnchanged == UNCHANGED <<connectedUsers, bannedUsers, messages, featureRequests>>

\* ----------------------------------------------------------------- claims

\* C1: a join from an open unbound connection whose userName is the name of
\* an identity in the connected set is rejected: the connected set is
\* unchanged and the connection stays unbound.
C1_JoinTakenNameRejected ==
    [][\A c \in Conns, n \in NamesOf(connectedUsers) : \A p \in PasswordInputs(n) :
         (Live(c) /\ Unbound(c) /\ Join(c, n, p))
         => /\ connectedUsers' = connectedUsers
            /\ user'[c] = NoUser
            /\ ~isLoggedIn'[c]]_vars

\* C2: every join with a name that is in the ban set fails, from whatever
\* connection and with whatever password: the binding of every connection,
\* the connected set and the ban set are unchanged, the caller's socket is
\* closing afterwards, and the caller is sent `banned` and nothing else (a
\* socket the server had closed before can be sent nothing).
C2_BannedJoinFails ==
    [][\A c \in Conns, n \in NamesOf(bannedUsers) : \A p \in PasswordInputs(n) :
         Join(c, n, p)
         => /\ user' = user
            /\ isLoggedIn' = isLoggedIn
            /\ connectedUsers' = connectedUsers
            /\ bannedUsers' = bannedUsers
            /\ sent'[c] = IF readyState[c] = "OPEN" THEN <<BannedNotice>> ELSE <<>>
            /\ readyState'[c] = "CLOSING"]_vars

\* C2 witness: an unbound socket that asked to join under a banned name has
\* been sent `banned` and is closing, and the connected set does not hold it.
C2_Witness ==
    \E c \in Conns :
        /\ sent[c] = <<BannedNotice>>
        /\ readyState[c] = "CLOSING"
        /\ Unbound(c)
        /\ bannedUsers # <<>>
        /\ "bob" \in NamesOf(bannedUsers)

\* C3: no entry of the ban set has the id or the name of an identity in the
\* connected set.
C3_BanAndConnectedDisjoint ==
    /\ IdsOf(bannedUsers) \cap IdsOf(connectedUsers) = {}
    /\ NamesOf(bannedUsers) \cap NamesOf(connectedUsers) = {}

\* The 'message' callback for an event of the given type, whatever its payload.
Message(c, type) ==
    \/ NotJoined(c, type)
    \/ type = "join" /\ \E n \in Names : \E p \in PasswordInputs(n) : Join(c, n, p)
    \/ type = "chatMessage" /\ \E t \in Texts : ChatMessage(c, t)
    \/ type = "banUser" /\ \E i \in IdInputs(connectedUsers) : BanUser(c, i)
    \/ type = "unbanUser" /\ \E i \in IdInputs(bannedUsers) : UnbanUser(c, i)
    \/ type = "featureRequest" /\ \E t \in Texts : FeatureRequest(c, t)
    \/ type = "deleteFeatureRequest"
         /\ \E i \in IdInputs(featureRequests) : DeleteFeatureRequest(c, i)
    \/ UnknownType(c, type)

AdminGatedTypes == {"banUser", "unbanUser", "clearChat", "adminMessage", "deleteFeatureRequest"}

NothingSentExceptTo(c) == \A k \in Conns \ {c} : sent'[k] = <<>>

\* C4: an admin-gated event from an open bound connection whose identity is not
\* admin changes none of the four stores, sends nothing to any other
\* connection, and sends the caller exactly one 'not authorized' alert.
C4_NonAdminGetsOneAlert ==
    [][\A c \in Conns, t \in AdminGatedTypes :
         (Live(c) /\ isLoggedIn[c] /\ ~user[c].isAdmin /\ Message(c, t))
         => /\ StoresUnchanged
            /\ NothingSentExceptTo(c)
            /\ sent'[c] = <<NotAuthorized>>]_vars

\* C5: a join arriving on an open connection that is already bound changes
\* neither that connection's bound identity nor the connected set.
C5_BoundJoinRefused ==
    [][\A c \in Conns, n \in Names : \A p \in PasswordInputs(n) :
         (Live(c) /\ isLoggedIn[c] /\ Join(c, n, p))
         => /\ user'[c] = user[c]
            /\ connectedUsers' = connectedUsers]_vars

\* C6: any event other than join on an unbound connection changes none of
\* the four stores, sends nothing to any other connection, and leaves the
\* connection unbound and every socket's state as it was (an open one stays
\* open); the caller is sent one join-first alert and nothing else (a socket
\* the server had closed before can be sent nothing).
C6_UnboundEventRejected ==
    [][\A c \in Conns, t \in EventTypes \ {"join"} :
         (Unbound(c) /\ Message(c, t))
         => /\ StoresUnchanged
            /\ NothingSentExceptTo(c)
            /\ sent'[c] = IF readyState[c] = "OPEN" THEN <<JoinFirstAlert>> ELSE <<>>
            /\ readyState' = readyState
            /\ ~isLoggedIn'[c] /\ user'[c] = NoUser]_vars

\* C6 witness: while another connection is bound, an open unbound socket has
\* just been told to join first and is still open and unbound.
C6_Witness ==
    \E c \in Conns :
        /\ sent[c] = <<JoinFirstAlert>>
        /\ readyState[c] = "OPEN"
        /\ Unbound(c)
        /\ connectedUsers # <<>>

\* Every identity with the admin role that a step creates comes from a join
\* that supplied the administrator name and ADMIN_PASSWORD.
AdminOnlyBySecret ==
    /\ \A c \in Conns :
         (user'[c] # user[c] /\ user'[c].isAdmin)
         => Join(c, ADMIN_NAME, ADMIN_PASSWORD)
    /\ \A i \in IdsOf(connectedUsers') \ IdsOf(connectedUsers) :
         findUserById(connectedUsers', i).isAdmin
         => \E c \in Conns : Join(c, ADMIN_NAME, ADMIN_PASSWORD) /\ user'[c].id = i

\* C7 as stated: a join from an open connection with the administrator name
\* and another password than ADMIN_PASSWORD leaves the connected set and
\* every binding unchanged and the caller receives the incorrect-password
\* alert; and admin identities come only from joins with the right password.
C7_BadAdminPasswordAlerted ==
    [][/\ \A c \in Conns, p \in Passwords \ {ADMIN_PASSWORD} :
            (Live(c) /\ Join(c, ADMIN_NAME, p))
            => /\ connectedUsers' = connectedUsers
               /\ user' = user
               /\ isLoggedIn' = isLoggedIn
               /\ sent'[c] = <<BadPasswordAlert>>
       /\ AdminOnlyBySecret]_vars

\* C7 amended: a join with the administrator name and another password than
\* ADMIN_PASSWORD leaves the four stores and every binding unchanged and the
\* caller's socket is closing afterwards; the caller receives the
\* incorrect-password alert, or `banned` instead when the administrator name
\* is in the ban set (a socket the server had closed before can be sent
\* nothing); and admin identities come only from joins with the right
\* password.
C7_BadAdminPasswordRegistersNothing ==
    [][/\ \A c \in Conns, p \in Passwords \ {ADMIN_PASSWORD} :
            Join(c, ADMIN_NAME, p)
            => /\ StoresUnchanged
               /\ user' = user
               /\ isLoggedIn' = isLoggedIn
               /\ readyState'[c] = "CLOSING"
               /\ NothingSentExceptTo(c)
               /\ sent'[c] = IF readyState[c] # "OPEN" THEN <<>>
                             ELSE IF ADMIN_NAME \in NamesOf(bannedUsers)
                                  THEN <<BannedNotice>>
                                  ELSE <<BadPasswordAlert>>
       /\ AdminOnlyBySecret]_vars

\* C7 witness: an unbound socket that gave a wrong administrator password has
\* the alert, is closing and unbound, and no admin identity is connected.
C7_Witness ==
    \E c \in Conns :
        /\ sent[c] = <<BadPasswordAlert>>
        /\ readyState[c] = "CLOSING"
        /\ Unbound(c)
        /\ \A i \in DOMAIN connectedUsers : ~connectedUsers[i].isAdmin

\* C8: when an open admin connection bans the id of an identity in the connected set, the
\* identity leaves the connected set and enters the ban set, the connection
\* bound to it is sent `banned` first and is then not open, and every socket
\* still open is sent an updateUserLists carrying the new sets.
C8_BanClosesTarget ==
    [][\A c \in Conns, i \in IdsOf(connectedUsers) :
         (Live(c) /\ isLoggedIn[c] /\ user[c].isAdmin /\ BanUser(c, i))
         => /\ i \notin IdsOf(connectedUsers')
            /\ i \in IdsOf(bannedUsers')
            /\ \E k \in Conns :
                 /\ user[k].id = i
                 /\ sent'[k] # <<>>
                 /\ Head(sent'[k]) = [type |-> "banned"]
                 /\ readyState'[k] = "CLOSING"
            /\ \A k \in Conns :
                 readyState'[k] = "OPEN"
                 => sent'[k] = <<UserListsMsg(connectedUsers', bannedUsers')>>]_vars

\* C9: a featureRequest from a bound non-admin connection appends the request
\* (author and text) to the queue, and the updateFeatureRequests carrying the
\* new queue goes once to each open socket bound to an admin identity and to
\* no other socket; and in no step does a socket that is not open and bound to
\* an admin identity receive an updateFeatureRequests.
C9_FeatureRequestsToAdminsOnly ==
    [][/\ \A c \in Conns, t \in Texts :
            (isLoggedIn[c] /\ ~user[c].isAdmin /\ FeatureRequest(c, t))
            => /\ Len(featureRequests') = Len(featureRequests) + 1
               /\ SubSeq(featureRequests', 1, Len(featureRequests)) = featureRequests
               /\ featureRequests'[Len(featureRequests')].userId = user[c].id
               /\ featureRequests'[Len(featureRequests')].userName = user[c].name
               /\ featureRequests'[Len(featureRequests')].text = t
               /\ \A k \in Conns :
                    sent'[k] = IF readyState[k] = "OPEN" /\ user[k].isAdmin
                               THEN <<FeatureRequestsMsg(featureRequests')>>
                               ELSE <<>>
       /\ \A k \in Conns :
            Frames(sent'[k], "updateFeatureRequests") # {}
            => /\ readyState'[k] = "OPEN"
               /\ isLoggedIn'[k]
               /\ user'[k].isAdmin]_vars

\* C9 witness: a regular user's request is in the queue; the open admin socket
\* has the updateFeatureRequests carrying it and the open submitter socket
\* has nothing.
C9_Witness ==
    /\ featureRequests # <<>>
    /\ \E a, b \in Conns :
         /\ readyState[a] = "OPEN" /\ user[a].isAdmin
         /\ readyState[b] = "OPEN" /\ isLoggedIn[b] /\ ~user[b].isAdmin
         /\ featureRequests[Len(featureRequests)].userId = user[b].id
         /\ sent[a] = <<FeatureRequestsMsg(featureRequests)>>
         /\ sent[b] = <<>>

\* C10: a chatMessage from a bound connection appends one entry (the sender's
\* id and name, the text) to the message log, and every open socket, the
\* sender's included, is sent exactly one newMessage carrying that entry and
\* nothing else; sockets that are not open are sent nothing.
C10_ChatMessageDeliveredOnce ==
    [][\A c \in Conns, t \in Texts :
         (isLoggedIn[c] /\ ChatMessage(c, t))
         => /\ Len(messages') = Len(messages) + 1
            /\ SubSeq(messages', 1, Len(messages)) = messages
            /\ messages'[Len(messages')].userId = user[c].id
            /\ messages'[Len(messages')].userName = user[c].name
            /\ messages'[Len(messages')].text = t
            /\ \A k \in Conns :
                 sent'[k] = IF readyState[k] = "OPEN"
                            THEN <<[type |-> "newMessage",
                                    message |-> messages'[Len(messages')]]>>
                            ELSE <<>>]_vars

\* C10 witness: two open bound sockets, the sender and another, each hold
\* exactly one newMessage carrying the last entry of the log.
C10_Witness ==
    /\ messages # <<>>
    /\ \E a, b \in Conns :
         /\ a # b
         /\ readyState[a] = "OPEN" /\ readyState[b] = "OPEN"
         /\ isLoggedIn[a] /\ isLoggedIn[b]
         /\ messages[Len(messages)].userId = user[a].id
         /\ messages[Len(messages)].userName = user[a].name
         /\ sent[a] = <<[type |-> "newMessage", message |-> messages[Len(messages)]]>>
         /\ sent[b] = sent[a]

\* C11: after an open administrator connection sends clearChat the message
\* log is empty (so the chatHistory of the next join carries no entries).
C11_ClearChatEmptiesLog ==
    [][\A c \in Conns :
         (Live(c) /\ isLoggedIn[c] /\ user[c].isAdmin /\ Message(c, "clearChat"))
         => messages' = <<>>]_vars

\* C12: a frame that cannot be parsed is dropped: the server is not crashed
\* afterwards and the four stores are unchanged.
C12_MalformedDropped ==
    [][\A c \in Conns : Malformed(c) => (~crashed' /\ StoresUnchanged)]_vars

C14_HistoryBeforeBroadcasts ==
    [][\A k \in Conns : \A i \in DOMAIN sent'[k] :
         sent'[k][i].type \in {"newMessage", "updateUserLists"}
         => \/ isLoggedIn[k]
            \/ \E j \in 1..(i - 1) : sent'[k][j].type = "chatHistory"]_vars

\* C15: a connection the server has closed (its socket is CLOSING: the target
\* of a ban, a join under a banned name, a wrong administrator password) is
\* closed for good: no later message from it changes the message log, the
\* feature requests, the connected set or the ban set, and its binding does
\* not change.
C15_ForceClosedIsInert ==
    [][\A c \in Conns :
         (readyState[c] = "CLOSING" /\ \E t \in EventTypes : Message(c, t))
         => /\ StoresUnchanged
            /\ user'[c] = user[c]
            /\ isLoggedIn'[c] = isLoggedIn[c]]_vars

\* C16 as stated: a join from an open unbound connection that fails because of
\* a wrong administrator password leaves the connection open and unbound.
C16_BadPasswordStaysOpen ==
    [][\A c \in Conns, p \in Passwords \ {ADMIN_PASSWORD} :
         (Live(c) /\ Unbound(c) /\ ~IsBanned(ADMIN_NAME) /\ Join(c, ADMIN_NAME, p))
         => /\ readyState'[c] = "OPEN"
            /\ Unbound(c)']_vars

\* C16: a join from an open unbound connection that fails because of a wrong
\* administrator password leaves the connection unbound and closed by the
\* server, after the alert; it changes no store and no other connection, so
\* the name is not locked and a join on a new connection is judged as before.
C16_BadPasswordClosesUnbound ==
    [][\A c \in Conns, p \in Passwords \ {ADMIN_PASSWORD} :
         (Live(c) /\ Unbound(c) /\ ~IsBanned(ADMIN_NAME) /\ Join(c, ADMIN_NAME, p))
         => /\ readyState'[c] = "CLOSING"
            /\ Unbound(c)'
            /\ sent' = [NoneSent EXCEPT ![c] = <<BadPasswordAlert>>]
            /\ StoresUnchanged
            /\ \A k \in Conns \ {c} :
                 /\ readyState'[k] = readyState[k]
                 /\ user'[k] = user[k]
                 /\ isLoggedIn'[k] = isLoggedIn[k]]_vars

\* C16 witness: the first socket was closed for a wrong administrator password
\* and is still unbound; the client came back on a second socket and joined as
\* administrator there.
C16_Witness ==
    /\ readyState[1] = "CLOSING" /\ Unbound(1)
    /\ Live(2) /\ isLoggedIn[2] /\ user[2].isAdmin
    /\ connectedUsers = <<user[2]>>
    /\ bannedUsers = <<>>
    /\ nextId = 2

\* C17: the close of a bound connection takes its identity out of the
\* connected set, keeping the other entries and their order, leaves the ban
\* set, the message log and the feature requests unchanged, and every other
\* open connection is sent one updateUserLists with the lists after the
\* removal; the close of a connection that is not bound changes no store and
\* nothing is sent.
C17_CloseRemovesIdentity ==
    [][\A c \in Conns :
         Close(c)
         => /\ bannedUsers' = bannedUsers
            /\ messages' = messages
            /\ featureRequests' = featureRequests
            /\ IF user[c] # NoUser
               THEN /\ user[c].id \notin IdsOf(connectedUsers')
                    /\ connectedUsers' = SelectSeq(connectedUsers,
                                            LAMBDA u : u.id # user[c].id)
                    /\ \A k \in Conns :
                         sent'[k] = IF k # c /\ readyState[k] = "OPEN"
                                    THEN <<UserListsMsg(connectedUsers', bannedUsers)>>
                                    ELSE <<>>
               ELSE /\ connectedUsers' = connectedUsers
                    /\ sent' = NoneSent]_vars

\* C17 witness: the only identity ever issued is gone from the connected set
\* without having been banned, the socket that held it is closed, and the
\* other socket, open and unbound, holds the updateUserLists of that removal.
C17_Witness ==
    \E a, b \in Conns :
        /\ readyState[a] = "NONE"
        /\ Live(b) /\ Unbound(b)
        /\ nextId = 2
        /\ connectedUsers = <<>>
        /\ bannedUsers = <<>>
        /\ sent[b] = <<UserListsMsg(<<>>, <<>>)>>

\* C18: an unbanUser from an open administrator connection with the id of a
\* ban-set entry removes exactly that entry, leaves the connected set
\* unchanged, and afterwards the entry's name is not banned, so that a join
\* under it passes the ban check; an unbanUser or a banUser with an id that is
\* not in the ban set, respectively the connected set, changes no store,
\* closes nothing and sends nothing.
C18_UnbanRestoresName ==
    [][\A c \in Conns :
         (Live(c) /\ isLoggedIn[c] /\ user[c].isAdmin)
         => /\ \A i \in IdsOf(bannedUsers) :
                 UnbanUser(c, i)
                 => /\ bannedUsers' = SelectSeq(bannedUsers, LAMBDA u : u.id # i)
                    /\ Len(bannedUsers') = Len(bannedUsers) - 1
                    /\ connectedUsers' = connectedUsers
                    /\ findUserById(bannedUsers, i).name \notin NamesOf(bannedUsers')
            /\ (UnbanUser(c, NoId) \/ BanUser(c, NoId))
                 => /\ StoresUnchanged
                    /\ readyState' = readyState
                    /\ sent' = NoneSent]_vars

\* C19: the message log is append-only.  Every step leaves the log as it
\* was, or is a chatMessage from a bound connection and extends the log by
\* exactly one entry, the log before being a prefix of the log after; only a
\* clearChat from an administrator is exempt.
C19_LogAppendOnly ==
    [][\/ messages' = messages
       \/ /\ Len(messages') = Len(messages) + 1
          /\ SubSeq(messages', 1, Len(messages)) = messages
          /\ \E c \in Conns :
               /\ isLoggedIn[c] /\ user[c] # NoUser
               /\ \E t \in Texts : ChatMessage(c, t)
       \/ \E c \in Conns :
            isLoggedIn[c] /\ user[c].isAdmin /\ Message(c, "clearChat")]_vars

\* C19 witness: the log has grown twice; the older entry is still first, and
\* an open connection holds the newMessage of the entry appended last.
C19_Witness ==
    /\ Len(messages) = 2
    /\ messages[1].id < messages[2].id
    /\ \E c \in Conns :
         /\ Live(c) /\ isLoggedIn[c]
         /\ sent[c] = <<[type |-> "newMessage", message |-> messages[2]]>>

\* C20: the connected set corresponds one-to-one with the bound connections
\* that have not closed: every entry is the identity of exactly one socket in
\* wss.clients that has logged in, and no two entries have the same id.
C20_NoOrphanIdentity ==
    /\ \A i \in DOMAIN connectedUsers :
         Cardinality({c \in Clients : isLoggedIn[c] /\ user[c] = connectedUsers[i]}) = 1
    /\ \A i, j \in DOMAIN connectedUsers :
         i # j => connectedUsers[i].id # connectedUsers[j].id

====
